---- MODULE Spec2Model ----
(***************************************************************************)
(* The WeatherBar custom element of lovelace-hourly-weather               *)
(* (src/weather-bar.ts): its reactive properties, render() as a function   *)
(* of those properties, and the update() cycle that re-renders the shadow  *)
(* root and rebinds the tippy.js tooltips.                                 *)
(*                                                                         *)
(* JavaScript arrays are 0-based; they are modelled as TLA+ sequences, so  *)
(* the element at JavaScript index i is arr[i + 1].  The JavaScript value  *)
(* `undefined` is represented, where it can flow into a string position,   *)
(* by the string its conversion yields.  Template children that may be     *)
(* null are sequences: <<>> when nothing is rendered.                      *)
(***************************************************************************)
EXTENDS Integers, Sequences, FiniteSets, TLC

VARIABLES
    conditions, temperatures, wind, precipitation, icons, colors,
    hide_hours, hide_temperatures, show_wind, show_precipitation_amounts,
    label_spacing, labels,
    tips,        \* this.tips: the Instance[] returned by the last tippy() call
    renderRoot,  \* children of the shadow root: <<>> before the first render
    live,        \* tippy.js instances created and not yet destroyed
    pc,          \* position in the update cycle
    updates,     \* number of update() calls started
    failed       \* whether the most recent update() call threw

props == <<conditions, temperatures, wind, precipitation, icons, colors,
           hide_hours, hide_temperatures, show_wind,
           show_precipitation_amounts, label_spacing, labels>>

vars == <<conditions, temperatures, wind, precipitation, icons, colors,
          hide_hours, hide_temperatures, show_wind,
          show_precipitation_amounts, label_spacing, labels,
          tips, renderRoot, live, pc, updates, failed>>

(***************************************************************************)
(* Bounds of the model.                                                    *)
(***************************************************************************)
MaxSpans == 2
MaxDuration == 9
MaxSlots == 5
MaxSpacing == 3
MaxColors == 2
MaxUpdates == 3

(***************************************************************************)
(* JavaScript primitives.                                                  *)
(***************************************************************************)
Undefined == "undefined"

Digits == <<"0", "1", "2", "3", "4", "5", "6", "7", "8", "9">>

\* String(n) and `${n}` for a non-negative integer: its decimal digits.
RECURSIVE String(_)
String(n) ==
    IF n < 10 THEN Digits[n + 1]
    ELSE String(n \div 10) \o Digits[(n % 10) + 1]

\* obj[key] on a plain object: the value, or undefined for an absent key.
Lookup(obj, key) ==
    IF key \in DOMAIN obj THEN obj[key] ELSE Undefined

\* arr[i] yields an element (and not undefined) iff i < arr.length.
HasIndex(arr, i) ==
    i < Len(arr)

\* arr[i], JavaScript index i, for an index in range.
At(arr, i) ==
    arr[i + 1]

\* Array.prototype.join
RECURSIVE Join(_, _)
Join(strs, sep) ==
    IF Len(strs) = 0 THEN ""
    ELSE IF Len(strs) = 1 THEN strs[1]
    ELSE strs[1] \o sep \o Join(Tail(strs), sep)

Range(s) ==
    {s[k] : k \in 1..Len(s)}

(***************************************************************************)
(* ./conditions: the default label and icon tables.                        *)
(***************************************************************************)
LABELS ==
    [k \in {"sunny", "rainy", "clear-night"} |->
        CASE k = "sunny" -> "Sunny"
          [] k = "rainy" -> "Rain"
          [] k = "clear-night" -> "Clear"]

ICONS ==
    [k \in {"sunny", "rainy", "clear-night"} |->
        CASE k = "sunny" -> "sunny"
          [] k = "rainy" -> "rainy"
          [] k = "clear-night" -> "weather-night"]

\* ./lib/svg-wind-barbs: the barb geometry for a speed in m/s.
getWindBarbSVG(speed) ==
    [barbFor |-> speed]

(***************************************************************************)
(* render(): the condition bar.                                            *)
(***************************************************************************)
\* this.labels[cond[0]]
ResolveLabel(lbls, key) ==
    Lookup(lbls, key)

ResolveIconPlainPrefix(key) ==
    "mdi:" \o Lookup(ICONS, key)

\* let icon = ICONS[cond[0]]; then the prefix by comparison with the key.
ResolveIcon(key) ==
    LET icon == Lookup(ICONS, key)
    IN IF icon = key THEN "mdi:weather-" \o icon ELSE "mdi:" \o icon

GridColumnEndInclusive(gridStart, duration) ==
    gridStart + duration - 1

\* gridStart += cond[1]
GridColumnEnd(gridStart, duration) ==
    gridStart + duration

\* this.icons ? <span class="condition-icon"> : <span class="condition-label">
ConditionChild(iconMode, icon, label) ==
    IF iconMode
    THEN [class |-> "condition-icon", icon |-> icon]
    ELSE [class |-> "condition-label", text |-> label]

\* One <div> of the bar for cond = <<key, duration>>.
ConditionBar(cond, gridStart, lbls, iconMode) ==
    LET label == ResolveLabel(lbls, cond[1])
        icon == ResolveIcon(cond[1])
    IN [class |-> cond[1],
        gridColumnStart |-> String(gridStart),
        gridColumnEnd |-> String(GridColumnEnd(gridStart, cond[2])),
        tippyContent |-> label,
        child |-> ConditionChild(iconMode, icon, label)]

\* for (const cond of this.conditions), from the k-th span on.
RECURSIVE ConditionBars(_, _, _, _, _)
ConditionBars(conds, k, gridStart, lbls, iconMode) ==
    IF k > Len(conds) THEN <<>>
    ELSE <<ConditionBar(conds[k], gridStart, lbls, iconMode)>>
         \o ConditionBars(conds, k + 1,
                          GridColumnEnd(gridStart, conds[k][2]),
                          lbls, iconMode)

(***************************************************************************)
(* render(): the axis blocks.                                              *)
(***************************************************************************)
SkipLabelByIndex(i, spacing) ==
    i % spacing # 0

\* const skipLabel = (i - 1) % this.label_spacing !== 0
SkipLabel(i, spacing) ==
    (i - 1) % spacing # 0

NextAxisIndexEvery(i) ==
    i + 1

\* i += 2
NextAxisIndex(i) ==
    i + 2

HourChildrenIgnoringSkip(hideHoursFlag, skipLabel, hour) ==
    IF hideHoursFlag THEN <<>> ELSE <<hour>>

\* const hideHours = this.hide_hours || skipLabel;  ${hideHours ? null : hour}
HourChildren(hideHoursFlag, skipLabel, hour) ==
    IF hideHoursFlag \/ skipLabel THEN <<>> ELSE <<hour>>

\* const hideTemperature = this.hide_temperatures || skipLabel
\* ${hideTemperature ? null : html`${temperature}&deg;`}
TemperatureChildren(hideTemperaturesFlag, skipLabel, temperature) ==
    IF hideTemperaturesFlag \/ skipLabel THEN <<>>
    ELSE <<[value |-> temperature, suffix |-> "&deg;"]>>

\* const showPrecipitationAmounts = this.show_precipitation_amounts && !skipLabel
PrecipitationChildren(showAmounts, skipLabel, precipitationAmount) ==
    IF showAmounts /\ ~skipLabel THEN <<precipitationAmount>> ELSE <<>>

\* getWindBarb(speed, direction): the svg, rotated by the raw direction.
getWindBarb(speed, direction) ==
    [class |-> "barb",
     transform |-> "rotate(" \o String(direction) \o "deg)",
     content |-> getWindBarbSVG(speed)]

WindChildrenNoBreak(mode, skipLabel, w) ==
    LET showWindSpeed == (mode = "true" \/ mode = "speed") /\ ~skipLabel
        showWindDirection == (mode = "true" \/ mode = "direction") /\ ~skipLabel
        showWindBarb == mode = "barb" /\ ~skipLabel
    IN (IF showWindSpeed
        THEN <<[kind |-> "text", text |-> w.windSpeed]>> ELSE <<>>)
       \o (IF showWindDirection
           THEN <<[kind |-> "text", text |-> w.windDirection]>> ELSE <<>>)
       \o (IF showWindBarb
           THEN <<[kind |-> "span",
                   title |-> w.windSpeed \o " " \o w.windDirection,
                   svg |-> getWindBarb(w.windSpeedRawMS, w.windDirectionRaw)]>>
           ELSE <<>>)

\* The wind: TemplateResult[] array of one block.
WindChildren(mode, skipLabel, w) ==
    LET showWindSpeed == (mode = "true" \/ mode = "speed") /\ ~skipLabel
        showWindDirection == (mode = "true" \/ mode = "direction") /\ ~skipLabel
        showWindBarb == mode = "barb" /\ ~skipLabel
    IN (IF showWindSpeed
        THEN <<[kind |-> "text", text |-> w.windSpeed]>> ELSE <<>>)
       \o (IF showWindSpeed /\ showWindDirection
           THEN <<[kind |-> "br"]>> ELSE <<>>)
       \o (IF showWindDirection
           THEN <<[kind |-> "text", text |-> w.windDirection]>> ELSE <<>>)
       \o (IF showWindBarb
           THEN <<[kind |-> "span",
                   title |-> w.windSpeed \o " " \o w.windDirection,
                   svg |-> getWindBarb(w.windSpeedRawMS, w.windDirectionRaw)]>>
           ELSE <<>>)

\* The <div class="bar-block"> built in the loop body for index i; `slot`
\* records the index the block was built from.
BarBlock(i) ==
    LET skipLabel == SkipLabel(i, label_spacing)
        t == At(temperatures, i)
        w == At(wind, i)
        p == At(precipitation, i)
    IN [slot |-> i,
        hour |-> HourChildren(hide_hours, skipLabel, t.hour),
        temperature |->
            TemperatureChildren(hide_temperatures, skipLabel, t.temperature),
        wind |-> WindChildren(show_wind, skipLabel, w),
        precipitation |->
            PrecipitationChildren(show_precipitation_amounts, skipLabel,
                                  p.precipitationAmount)]

\* for (let i = 1; i < this.temperatures.length; i += 2), from index i on.
\* Destructuring this.wind[i] or this.precipitation[i] throws a TypeError
\* when the element is undefined.
RECURSIVE BarBlocks(_)
BarBlocks(i) ==
    IF ~(i < Len(temperatures)) THEN [threw |-> FALSE, blocks |-> <<>>]
    ELSE IF ~HasIndex(wind, i) \/ ~HasIndex(precipitation, i)
         THEN [threw |-> TRUE, blocks |-> <<>>]
    ELSE LET rest == BarBlocks(NextAxisIndex(i))
         IN [threw |-> rest.threw,
             blocks |-> IF rest.threw THEN <<>>
                        ELSE <<BarBlock(i)>> \o rest.blocks]

(***************************************************************************)
(* render(): the colour overrides.                                         *)
(***************************************************************************)
NoColors == [kind |-> "undefined"]

ColorMap(entries) == [kind |-> "Map", entries |-> entries]

ColorVarNoPrefix(key, color) ==
    key \o ": " \o color \o ";"

\* `--color-${key}: ${color};`
ColorVar(key, color) ==
    "--color-" \o key \o ": " \o color \o ";"

\* getColorStyles(colors): null, or the <style> block.
getColorStyles(cs) ==
    IF cs.kind = "undefined" \/ Len(cs.entries) = 0 THEN <<>>
    ELSE LET cssVars ==
                 [k \in 1..Len(cs.entries) |->
                     ColorVar(cs.entries[k][1], cs.entries[k][2])]
         IN <<[tag |-> "style",
               selector |-> ".main > .bar",
               declarations |-> Join(cssVars, " ")]>>

\* render(): whether it threw, and otherwise the <div class="main"> tree.
render ==
    LET conditionBars == ConditionBars(conditions, 1, 1, labels, icons)
        axes == BarBlocks(1)
        colorStyles == IF colors.kind # "undefined"
                       THEN getColorStyles(colors) ELSE <<>>
    IN [threw |-> axes.threw,
        main |-> [styles |-> colorStyles,
                  bar |-> conditionBars,
                  axes |-> axes.blocks]]

(***************************************************************************)
(* update(changedProperties) and the tippy.js instances.                   *)
(***************************************************************************)
\* this.renderRoot.querySelectorAll('.bar > div'): the bar's segment
\* elements, identified by their position in the bar.
QuerySegments(root) ==
    IF Len(root) = 0 THEN {} ELSE 1..Len(root[1].bar)

\* tippy(elements, ...): one new instance per element.
Tippy(elements, generation) ==
    [k \in 1..Cardinality(elements) |->
        [update |-> generation, reference |-> k]]

DestroyedNone(liveSet, tipSeq) ==
    liveSet

\* this.tips.forEach(t => t.destroy())
Destroyed(liveSet, tipSeq) ==
    liveSet \ Range(tipSeq)

\* The scheduler calls update() for a pending change or requestUpdate().
RequestUpdate ==
    /\ pc = "idle"
    /\ updates < MaxUpdates
    /\ pc' = "update"
    /\ UNCHANGED <<props, tips, renderRoot, live, updates, failed>>

RenderThrewIgnored(r) ==
    FALSE

\* Whether super.update() propagates an exception out of render().
RenderThrew(r) ==
    r.threw

\* super.update(changedProperties): evaluates render() and commits the
\* result to the shadow root; an exception of render() leaves update().
SuperUpdate ==
    /\ pc = "update"
    /\ updates' = updates + 1
    /\ LET r == render
       IN IF RenderThrew(r)
          THEN /\ failed' = TRUE
               /\ pc' = "idle"
               /\ UNCHANGED renderRoot
          ELSE /\ failed' = FALSE
               /\ pc' = "destroy"
               /\ renderRoot' = <<r.main>>
    /\ UNCHANGED <<props, tips, live>>

\* this.tips.forEach(t => t.destroy())
DestroyTips ==
    /\ pc = "destroy"
    /\ live' = Destroyed(live, tips)
    /\ pc' = "bind"
    /\ UNCHANGED <<props, tips, renderRoot, updates, failed>>

\* this.tips = tippy(this.renderRoot.querySelectorAll('.bar > div'), ...)
BindTippy ==
    /\ pc = "bind"
    /\ tips' = Tippy(QuerySegments(renderRoot), updates)
    /\ live' = live \cup Range(tips')
    /\ pc' = "idle"
    /\ UNCHANGED <<props, renderRoot, updates, failed>>

UpdateCycle ==
    \/ RequestUpdate
    \/ SuperUpdate
    \/ DestroyTips
    \/ BindTippy

(***************************************************************************)
(* The values the host assigns to the properties.                          *)
(***************************************************************************)
SeqsUpTo(S, n) ==
    UNION {[1..m -> S] : m \in 0..n}

ConditionKeys == {"sunny", "rainy", "clear-night", "hurricane"}

Durations == {1, 2, MaxDuration}

\* ConditionSpan[]: <<key, duration>> pairs with positive durations.
BarConditions ==
    SeqsUpTo(ConditionKeys \X Durations, MaxSpans)

\* labels: the defaults, or an object the host supplies in their place.
LabelMaps ==
    {LABELS, [k \in {"sunny"} |-> "Sol"]}

\* SegmentTemperature[] of length n, one entry per half hour.
MkTemperatures(n) ==
    [j \in 1..n |->
        [hour |-> String((j - 1) \div 2) \o
                  (IF (j - 1) % 2 = 0 THEN ":00" ELSE ":30"),
         temperature |-> 10 + j]]

\* SegmentWind[] of length n.
MkWind(n) ==
    [j \in 1..n |->
        [windSpeed |-> String(j + 2) \o " m/s",
         windSpeedRawMS |-> j + 2,
         windDirection |-> IF j % 4 = 0 THEN "SW" ELSE "N",
         windDirectionRaw |-> IF j % 4 = 0 THEN 225 ELSE 0]]

\* SegmentPrecipitation[] of length n.
MkPrecipitation(n) ==
    [j \in 1..n |-> [precipitationAmount |-> String(j) \o " mm"]]

\* WindType, and one value outside it.
WindModes == {"false", "true", "speed", "direction", "barb", "gust"}

ColorKeys == {"sunny", "rainy", "fog"}

ColorValues == {"#ffcc00", "#111"}

\* ColorMap | undefined: a Map holds each key once, in insertion order.
ColorMaps ==
    {NoColors} \cup
    {ColorMap(e) : e \in
        {q \in SeqsUpTo(ColorKeys \X ColorValues, MaxColors) :
            \A a, b \in 1..Len(q) : a # b => q[a][1] # q[b][1]}}

(***************************************************************************)
(* The element after construction: the property initialisers.              *)
(***************************************************************************)
Init ==
    /\ conditions = <<>>
    /\ temperatures = <<>>
    /\ wind = <<>>
    /\ precipitation = <<>>
    /\ icons = FALSE
    /\ colors = NoColors
    /\ hide_hours = FALSE
    /\ hide_temperatures = FALSE
    /\ show_wind = "false"
    /\ show_precipitation_amounts = FALSE
    /\ label_spacing = 2
    /\ labels = LABELS
    /\ tips = <<>>
    /\ renderRoot = <<>>
    /\ live = {}
    /\ pc = "idle"
    /\ updates = 0
    /\ failed = FALSE

\* The host assigns one property; the change schedules an update.
Assigned ==
    /\ pc = "idle"
    /\ updates < MaxUpdates
    /\ pc' = "update"
    /\ UNCHANGED <<tips, renderRoot, live, updates, failed>>

LifecycleConditions ==
    SeqsUpTo({<<"sunny", 2>>, <<"hurricane", 1>>}, MaxSpans)

SetConditions ==
    /\ Assigned
    /\ \E c \in LifecycleConditions : conditions' = c
    /\ UNCHANGED <<temperatures, wind, precipitation, icons, colors,
                   hide_hours, hide_temperatures, show_wind,
                   show_precipitation_amounts, label_spacing, labels>>

SetTemperatures ==
    /\ Assigned
    /\ \E n \in 0..MaxSlots : temperatures' = MkTemperatures(n)
    /\ UNCHANGED <<conditions, wind, precipitation, icons, colors,
                   hide_hours, hide_temperatures, show_wind,
                   show_precipitation_amounts, label_spacing, labels>>

SetWind ==
    /\ Assigned
    /\ \E n \in 0..MaxSlots : wind' = MkWind(n)
    /\ UNCHANGED <<conditions, temperatures, precipitation, icons, colors,
                   hide_hours, hide_temperatures, show_wind,
                   show_precipitation_amounts, label_spacing, labels>>

SetPrecipitation ==
    /\ Assigned
    /\ \E n \in 0..MaxSlots : precipitation' = MkPrecipitation(n)
    /\ UNCHANGED <<conditions, temperatures, wind, icons, colors,
                   hide_hours, hide_temperatures, show_wind,
                   show_precipitation_amounts, label_spacing, labels>>

SetShowWind ==
    /\ Assigned
    /\ \E m \in {"false", "true"} : show_wind' = m
    /\ UNCHANGED <<conditions, temperatures, wind, precipitation, icons,
                   colors, hide_hours, hide_temperatures,
                   show_precipitation_amounts, label_spacing, labels>>

SetShowPrecipitationAmounts ==
    /\ Assigned
    /\ \E b \in BOOLEAN : show_precipitation_amounts' = b
    /\ UNCHANGED <<conditions, temperatures, wind, precipitation, icons,
                   colors, hide_hours, hide_temperatures, show_wind,
                   label_spacing, labels>>

Next ==
    \/ SetConditions
    \/ SetTemperatures
    \/ SetWind
    \/ SetPrecipitation
    \/ SetShowWind
    \/ SetShowPrecipitationAmounts
    \/ UpdateCycle

Spec == Init /\ [][Next]_vars

(***************************************************************************)
(* render() as a function of the properties: the host has assigned the     *)
(* properties of one area before the element's first update.               *)
(***************************************************************************)
Defaults ==
    /\ tips = <<>>
    /\ renderRoot = <<>>
    /\ live = {}
    /\ pc = "update"
    /\ updates = 0
    /\ failed = FALSE

InitBar ==
    /\ conditions \in BarConditions
    /\ icons \in BOOLEAN
    /\ labels \in LabelMaps
    /\ temperatures = <<>>
    /\ wind = <<>>
    /\ precipitation = <<>>
    /\ colors = NoColors
    /\ hide_hours = FALSE
    /\ hide_temperatures = FALSE
    /\ show_wind = "false"
    /\ show_precipitation_amounts = FALSE
    /\ label_spacing = 2
    /\ Defaults

SpecBar == InitBar /\ [][UpdateCycle]_vars

InitAxis ==
    /\ \E n \in 0..MaxSlots :
          /\ temperatures = MkTemperatures(n)
          /\ wind = MkWind(n)
          /\ precipitation = MkPrecipitation(n)
    /\ hide_hours \in BOOLEAN
    /\ hide_temperatures \in BOOLEAN
    /\ show_wind \in WindModes
    /\ show_precipitation_amounts \in BOOLEAN
    /\ label_spacing \in 1..MaxSpacing
    /\ conditions = <<>>
    /\ icons = FALSE
    /\ labels = LABELS
    /\ colors = NoColors
    /\ Defaults

SpecAxis == InitAxis /\ [][UpdateCycle]_vars

InitColors ==
    /\ colors \in ColorMaps
    /\ conditions \in SeqsUpTo({<<"sunny", 1>>}, 1)
    /\ icons = FALSE
    /\ labels = LABELS
    /\ temperatures = <<>>
    /\ wind = <<>>
    /\ precipitation = <<>>
    /\ hide_hours = FALSE
    /\ hide_temperatures = FALSE
    /\ show_wind = "false"
    /\ show_precipitation_amounts = FALSE
    /\ label_spacing = 2
    /\ Defaults

SpecColors == InitColors /\ [][UpdateCycle]_vars

(***************************************************************************)
(* Properties.                                                             *)
(***************************************************************************)
\* An update has completed and the shadow root shows the current properties.
Rendered ==
    pc = "idle" /\ updates > 0 /\ ~failed /\ Len(renderRoot) = 1

\* The column a style string names.
ColumnOf(str) ==
    CHOOSE n \in 0..(1 + MaxSpans * MaxDuration) : String(n) = str

RECURSIVE SumDurations(_, _)
SumDurations(conds, k) ==
    IF k = 0 THEN 0 ELSE conds[k][2] + SumDurations(conds, k - 1)

ExampleConditions == <<<<"sunny", 2>>, <<"rainy", 1>>>>

\* C1: the first span starts at column 1, every span ends at its start plus
\* its duration, every next span starts where the previous one ends, so the
\* starts increase strictly and the last end is 1 plus the sum of the
\* durations; [(sunny,2),(rainy,1)] yields [1,3) and [3,4).
C1_GridColumnsContiguous ==
    Rendered =>
        LET bar == renderRoot[1].bar
            n == Len(conditions)
        IN /\ Len(bar) = n
           /\ n > 0 => bar[1].gridColumnStart = "1"
           /\ \A k \in 1..n :
                 ColumnOf(bar[k].gridColumnEnd) =
                     ColumnOf(bar[k].gridColumnStart) + conditions[k][2]
           /\ \A k \in 1..(n - 1) :
                 /\ bar[k + 1].gridColumnStart = bar[k].gridColumnEnd
                 /\ ColumnOf(bar[k].gridColumnStart)
                        < ColumnOf(bar[k + 1].gridColumnStart)
           /\ n > 0 =>
                 ColumnOf(bar[n].gridColumnEnd) = 1 + SumDurations(conditions, n)
           /\ conditions = ExampleConditions =>
                 /\ bar[1].gridColumnStart = "1" /\ bar[1].gridColumnEnd = "3"
                 /\ bar[2].gridColumnStart = "3" /\ bar[2].gridColumnEnd = "4"

C1_Witness ==
    /\ Rendered
    /\ conditions = <<<<"sunny", 2>>, <<"rainy", MaxDuration>>>>
    /\ renderRoot[1].bar[2].gridColumnStart = "3"
    /\ renderRoot[1].bar[2].gridColumnEnd = String(3 + MaxDuration)

\* C3: a span whose key is absent from the labels mapping has the raw key as
\* its tooltip text, as its text label and as its CSS class.
C3_UnknownKeyFallsBackToKey ==
    Rendered =>
        \A k \in 1..Len(conditions) :
            LET key == conditions[k][1]
                seg == renderRoot[1].bar[k]
            IN key \notin DOMAIN labels =>
                  /\ seg.class = key
                  /\ seg.tippyContent = key
                  /\ ~icons => seg.child.text = key

\* C9: the icon identifier is 'mdi:weather-' and the key when the icon lookup
\* returns the key unchanged and 'mdi:' and the looked-up value otherwise; a
\* segment holds the icon reference iff icon mode is on and the text label
\* iff it is off, never both and never neither.
C9_IconResolutionAndMode ==
    Rendered =>
        \A k \in 1..Len(conditions) :
            LET key == conditions[k][1]
                looked == Lookup(ICONS, key)
                child == renderRoot[1].bar[k].child
            IN /\ ("icon" \in DOMAIN child) <=> icons
               /\ ("text" \in DOMAIN child) <=> ~icons
               /\ icons =>
                     /\ child.class = "condition-icon"
                     /\ looked = key => child.icon = "mdi:weather-" \o key
                     /\ looked # key => child.icon = "mdi:" \o looked
               /\ ~icons => child.class = "condition-label"

C9_Witness ==
    /\ Rendered
    /\ icons
    /\ Len(conditions) = 2
    /\ renderRoot[1].bar[1].child.icon = "mdi:weather-sunny"
    /\ renderRoot[1].bar[2].child.icon = "mdi:weather-night"

\* Whether the spacing rule suppresses the labels of the slot at index i.
Suppressed(i) ==
    (i - 1) % label_spacing # 0

\* C2 as stated: the blocks are those of the odd indices below n, in
\* increasing order, and there are floor((n-1)/2) of them.  It is read for
\* n >= 1, where the floor is not negative.
C2_BlockCountFloorOfNMinusOne ==
    (Rendered /\ Len(temperatures) >= 1) =>
        LET axes == renderRoot[1].axes
            n == Len(temperatures)
        IN /\ \A k \in 1..Len(axes) :
                 axes[k].slot = 2 * k - 1 /\ axes[k].slot < n
           /\ Len(axes) = (n - 1) \div 2

\* C2 as amended: the blocks are those of the odd indices 1, 3, 5, ... below
\* n, in increasing order, and there are floor(n/2) of them.
C2_BlockCountFloorOfHalf ==
    Rendered =>
        LET axes == renderRoot[1].axes
            n == Len(temperatures)
        IN /\ \A k \in 1..Len(axes) :
                 /\ axes[k].slot = 2 * k - 1
                 /\ axes[k].slot < n
                 /\ ~hide_hours /\ ~Suppressed(axes[k].slot) =>
                       axes[k].hour = <<temperatures[axes[k].slot + 1].hour>>
           /\ \A i \in 0..(n - 1) :
                 i % 2 = 1 => \E k \in 1..Len(axes) : axes[k].slot = i
           /\ Len(axes) = n \div 2

C2_Witness ==
    /\ Rendered
    /\ Len(temperatures) = 4
    /\ Len(renderRoot[1].axes) = 2
    /\ renderRoot[1].axes[2].slot = 3

\* C5: for label_spacing >= 1 the labels of a sampled index i are suppressed
\* iff (i-1) mod label_spacing # 0 (seen on the hour text when hours are not
\* hidden globally); label_spacing = 1 suppresses nothing; temperatures of
\* length 5 with label_spacing = 2 sample {1, 3} and suppress neither.
C5_SuppressedIffOffSpacing ==
    (Rendered /\ ~hide_hours) =>
        LET axes == renderRoot[1].axes
        IN /\ \A k \in 1..Len(axes) :
                 (axes[k].hour = <<>>) <=>
                     ((axes[k].slot - 1) % label_spacing # 0)
           /\ label_spacing = 1 =>
                 \A k \in 1..Len(axes) : axes[k].hour # <<>>
           /\ (Len(temperatures) = 5 /\ label_spacing = 2) =>
                 /\ {axes[k].slot : k \in 1..Len(axes)} = {1, 3}
                 /\ \A k \in 1..Len(axes) : axes[k].hour # <<>>

C5_Witness ==
    /\ Rendered
    /\ ~hide_hours
    /\ label_spacing = 3
    /\ Len(renderRoot[1].axes) >= 2
    /\ renderRoot[1].axes[1].hour # <<>>
    /\ renderRoot[1].axes[2].hour = <<>>

\* C6: in every block the hour is present iff hide_hours is off and the slot
\* is not suppressed, the temperature iff hide_temperatures is off and the
\* slot is not suppressed, the precipitation amount iff
\* show_precipitation_amounts is on and the slot is not suppressed; a
\* suppressed slot has all four sub-regions empty whatever the flags.
C6_SubRegionPresence ==
    Rendered =>
        \A k \in 1..Len(renderRoot[1].axes) :
            LET b == renderRoot[1].axes[k]
                skip == Suppressed(b.slot)
            IN /\ (b.hour # <<>>) <=> (~hide_hours /\ ~skip)
               /\ (b.temperature # <<>>) <=> (~hide_temperatures /\ ~skip)
               /\ (b.precipitation # <<>>) <=>
                      (show_precipitation_amounts /\ ~skip)
               /\ skip => /\ b.hour = <<>>
                          /\ b.temperature = <<>>
                          /\ b.wind = <<>>
                          /\ b.precipitation = <<>>

C6_Witness ==
    /\ Rendered
    /\ ~hide_hours /\ ~hide_temperatures /\ show_precipitation_amounts
    /\ show_wind = "true"
    /\ Len(renderRoot[1].axes) >= 2
    /\ renderRoot[1].axes[1].wind # <<>>
    /\ renderRoot[1].axes[1].precipitation # <<>>
    /\ renderRoot[1].axes[2].hour = <<>>
    /\ renderRoot[1].axes[2].wind = <<>>
    /\ renderRoot[1].axes[2].precipitation = <<>>

\* C7: in a block that is not suppressed the wind sub-region is [speed, line
\* break, direction] for 'true', [speed] for 'speed', [direction] for
\* 'direction', one glyph rotated by the raw direction, built from the raw
\* speed and titled 'speed direction' for 'barb', and empty for any other
\* value; a line break stands only between a speed and a direction.
C7_WindModes ==
    Rendered =>
        \A k \in 1..Len(renderRoot[1].axes) :
            LET b == renderRoot[1].axes[k]
                w == wind[b.slot + 1]
                speed == [kind |-> "text", text |-> w.windSpeed]
                direction == [kind |-> "text", text |-> w.windDirection]
                br == [kind |-> "br"]
            IN /\ ~Suppressed(b.slot) =>
                    /\ show_wind = "true" => b.wind = <<speed, br, direction>>
                    /\ show_wind = "speed" => b.wind = <<speed>>
                    /\ show_wind = "direction" => b.wind = <<direction>>
                    /\ show_wind = "barb" =>
                          /\ Len(b.wind) = 1
                          /\ b.wind[1].kind = "span"
                          /\ b.wind[1].title =
                                 w.windSpeed \o " " \o w.windDirection
                          /\ b.wind[1].svg.transform =
                                 "rotate(" \o String(w.windDirectionRaw) \o "deg)"
                          /\ b.wind[1].svg.content =
                                 getWindBarbSVG(w.windSpeedRawMS)
                    /\ show_wind \notin {"true", "speed", "direction", "barb"}
                          => b.wind = <<>>
               /\ \A x \in 1..Len(b.wind) :
                     b.wind[x] = br =>
                         /\ 1 < x /\ x < Len(b.wind)
                         /\ b.wind[x - 1] = speed
                         /\ b.wind[x + 1] = direction

C7_Witness ==
    /\ Rendered
    /\ show_wind = "barb"
    /\ Len(renderRoot[1].axes) >= 2
    /\ Len(renderRoot[1].axes[2].wind) = 1
    /\ renderRoot[1].axes[2].wind[1].svg.transform = "rotate(225deg)"
    /\ renderRoot[1].axes[2].wind[1].title = "6 m/s SW"

\* One '--color-<key>: <value>;' per entry from the k-th on, space-separated.
RECURSIVE ExpectedDeclarations(_, _)
ExpectedDeclarations(entries, k) ==
    LET one == "--color-" \o entries[k][1] \o ": " \o entries[k][2] \o ";"
    IN IF k = Len(entries) THEN one
       ELSE one \o " " \o ExpectedDeclarations(entries, k + 1)

\* C8: an absent or empty colour map yields no style block; a map with
\* entries yields one style block holding one '--color-<key>: <value>;' per
\* entry, in map order, and nothing else; rendering again with the same map
\* yields the same style output; {sunny: #ffcc00} yields exactly
\* '--color-sunny: #ffcc00;'.
C8_ColorStylesFromMapAlone ==
    /\ [](Rendered =>
            LET styles == renderRoot[1].styles
            IN /\ colors.kind = "undefined" => styles = <<>>
               /\ colors.kind = "Map" =>
                     IF Len(colors.entries) = 0 THEN styles = <<>>
                     ELSE /\ Len(styles) = 1
                          /\ styles[1].tag = "style"
                          /\ styles[1].declarations =
                                 ExpectedDeclarations(colors.entries, 1)
               /\ colors = ColorMap(<<<<"sunny", "#ffcc00">>>>) =>
                     styles[1].declarations = "--color-sunny: #ffcc00;")
    /\ [][(pc = "update" /\ pc' = "destroy" /\ Len(renderRoot) = 1
              /\ colors' = colors)
             => renderRoot'[1].styles = renderRoot[1].styles]_vars

C8_Witness ==
    /\ Rendered
    /\ updates >= 2
    /\ colors = ColorMap(<<<<"sunny", "#ffcc00">>, <<"fog", "#111">>>>)
    /\ renderRoot[1].styles[1].declarations =
           "--color-sunny: #ffcc00; --color-fog: #111;"

\* C4: between update cycles the tooltip instances created and not destroyed
\* are exactly those the most recent completed update created, one per
\* segment element of the rendered bar, and they are bound to the segments
\* of the tree that update rendered; instances are created only once every
\* instance of the previous update is destroyed.
C4_TooltipsRebuiltEachUpdate ==
    /\ [](pc = "idle" =>
            /\ live = Range(tips)
            /\ Cardinality(live) = Len(tips)
            /\ Len(tips) = Cardinality(QuerySegments(renderRoot))
            /\ \A k \in 1..Len(tips) : tips[k].reference = k
            /\ \A a, b \in live : a.update = b.update
            /\ (updates > 0 /\ ~failed) =>
                  /\ Len(tips) = Len(conditions)
                  /\ \A t \in live : t.update = updates)
    /\ [][(live' \ live # {}) =>
             /\ live = {}
             /\ renderRoot' = renderRoot
             /\ renderRoot = <<render.main>>
             /\ live' = Range(tips')
             /\ \A t \in live' : t.update = updates]_vars

C4_Witness ==
    /\ pc = "idle"
    /\ updates >= 2
    /\ Len(tips) = 1
    /\ tips[1].update = 2
    /\ live = {tips[1]}
    /\ Len(conditions) = 1

\* C10: an update fails iff some sampled odd index below the length of
\* temperatures is outside wind or outside precipitation, whatever show_wind
\* and show_precipitation_amounts are; a failed update destroys no tooltip
\* and creates none.
C10_MismatchFailsAndKeepsTooltips ==
    /\ []((pc = "idle" /\ updates > 0) =>
            (failed <=>
                \E i \in 0..(Len(temperatures) - 1) :
                    /\ i % 2 = 1
                    /\ (i >= Len(wind) \/ i >= Len(precipitation))))
    /\ [][(pc = "update" /\ failed') =>
             /\ tips' = tips
             /\ live' = live
             /\ renderRoot' = renderRoot
             /\ pc' = "idle"]_vars

C10_Witness ==
    /\ pc = "idle"
    /\ failed
    /\ Len(temperatures) >= 2
    /\ wind = <<>>
    /\ precipitation = <<>>
    /\ show_wind = "false"
    /\ ~show_precipitation_amounts
    /\ Len(tips) = 2
    /\ live = Range(tips)

====
